---- MODULE Spec2Model ----
(***************************************************************************)
(* Model of the scheduler: Job (src/src/job.rs), QueueManager              *)
(* (src/src/queue.rs, a std::collections::BinaryHeap<Job>), the            *)
(* TimePriorityEngine poll loop (src/src/engine.rs), the Worker            *)
(* (src/src/worker.rs), the PersistenceManager                             *)
(* (src/src/persistence_manager.rs) and main (src/src/main.rs).            *)
(***************************************************************************)
EXTENDS Integers, Sequences, FiniteSets, TLC

VARIABLES
    now,          \* the wall clock read by Job::now() / Utc::now()
    nextId,       \* source of fresh ids (Uuid::new_v4 never repeats)
    heap,         \* QueueManager.heap: the BinaryHeap's backing Vec<Job>
    snapshot_tx,  \* QueueManager.snapshot_tx is Some(_)
    snap_chan,    \* snapshots in flight on the persistence channel
    held,         \* jobs owned outside the store (caller, worker)
    worker_chan,  \* jobs in flight on the handoff channel
    is_running,   \* TimePriorityEngine.is_running
    handle,       \* TimePriorityEngine.handle is Some(_)
    epc,          \* position of the polling thread
    ready_jobs,   \* the polling thread's local ready_jobs
    stop_pc,      \* position of a caller inside TimePriorityEngine::stop
    enow,         \* the polling thread's local now
    loops,        \* polling threads spawned and not yet finished
    lock,         \* who holds the Mutex around the QueueManager
    poisoned,     \* a thread panicked while it held that Mutex
    worker_rx,    \* the Receiver of the handoff channel is alive
    registry,     \* Worker.registry: the function names registered
    ran,          \* the registered callables invoked so far, in order
    wk_pc,        \* position of a thread inside Worker::start
    files,        \* the file system: content under each path, or Absent
    wpc,          \* position of the snapshot writer thread
    wsnap,        \* the writer's local jobs_snapshot
    main_pc,      \* position of main()
    calls,        \* fail_and_retry calls in a row on the job built last
    seen,         \* the jobs the handoff receiver has taken, in order
    ret           \* the last operation and what it returned

vars == <<now, nextId, heap, snapshot_tx, snap_chan, held, worker_chan,
          is_running, handle, epc, ready_jobs, enow, stop_pc, loops, lock,
          poisoned, worker_rx, registry, ran, wk_pc, files, wpc, wsnap,
          main_pc, calls,
          seen, ret>>

----------------------------------------------------------------------------
(* Bounds of the model *)

MaxJobs == 4
MaxTime == 1
MaxPrio == 1
MaxRetries == 1
MaxChan == 1
MaxCalls == 3
SysJobs == 2
UpdJobs == 3
DiskJobs == 2
RunJobs == 2
WorkJobs == 2
MutJobs == 2
CrashJobs == 2
MaxRan == 2

Times == 0..MaxTime
Prios == 0..MaxPrio
Retries == 0..MaxRetries
Status == {"Pending", "Running", "Success", "Failed"}
Descs == {"Task 1", "Task 2"}

None == [none |-> TRUE]

(* the backing file and the temporary file next to it *)
Paths == {"queue.json", "queue.tmp"}

(* what a path holds when there is no file *)
Absent == [exists |-> FALSE, data |-> <<>>]

----------------------------------------------------------------------------
(* Job *)

(* Job::new rejecting execution_time = now as well *)
Job_new_le(id, execution_time, priority, description, function, max_retries, clock) ==
    IF execution_time <= clock
    THEN [ok |-> FALSE]
    ELSE [ok |-> TRUE,
          job |-> [id |-> id,
                   execution_time |-> execution_time,
                   priority |-> priority,
                   description |-> description,
                   function |-> function,
                   status |-> "Pending",
                   max_retries |-> max_retries,
                   retry_count |-> 0]]

(* Job::new: Err when execution_time < now, else a Pending job. *)
Job_new(id, execution_time, priority, description, function, max_retries, clock) ==
    IF execution_time < clock
    THEN [ok |-> FALSE]
    ELSE [ok |-> TRUE,
          job |-> [id |-> id,
                   execution_time |-> execution_time,
                   priority |-> priority,
                   description |-> description,
                   function |-> function,
                   status |-> "Pending",
                   max_retries |-> max_retries,
                   retry_count |-> 0]]

Job_start(j) == [j EXCEPT !.status = "Running"]

Job_complete(j) == [j EXCEPT !.status = "Success"]

(* fail_and_retry forgetting to count the retry *)
fail_and_retry_no_inc(j) ==
    IF j.retry_count < j.max_retries
    THEN [job |-> [j EXCEPT !.status = "Pending"], ret |-> TRUE]
    ELSE [job |-> [j EXCEPT !.status = "Failed"], ret |-> FALSE]

(* fail_and_retry with the retry test off by one *)
fail_and_retry_le(j) ==
    IF j.retry_count <= j.max_retries
    THEN [job |-> [j EXCEPT !.retry_count = j.retry_count + 1,
                            !.status = "Pending"],
          ret |-> TRUE]
    ELSE [job |-> [j EXCEPT !.status = "Failed"], ret |-> FALSE]

fail_and_retry(j) ==
    IF j.retry_count < j.max_retries
    THEN [job |-> [j EXCEPT !.retry_count = j.retry_count + 1,
                            !.status = "Pending"],
          ret |-> TRUE]
    ELSE [job |-> [j EXCEPT !.status = "Failed"], ret |-> FALSE]

(* impl Ord for Job: other.execution_time.cmp(self.execution_time)
   .then(self.priority.cmp(other.priority)) *)
IntCmp(a, b) == IF a < b THEN "Less" ELSE IF a > b THEN "Greater" ELSE "Equal"

(* the comparison with the priority tie-break reversed *)
cmp_prio_rev(self, other) ==
    LET t == IntCmp(other.execution_time, self.execution_time)
    IN  IF t # "Equal" THEN t ELSE IntCmp(other.priority, self.priority)

cmp(self, other) ==
    LET t == IntCmp(other.execution_time, self.execution_time)
    IN  IF t # "Equal" THEN t ELSE IntCmp(self.priority, other.priority)

Le(a, b) == cmp(a, b) # "Greater"
Ge(a, b) == cmp(a, b) # "Less"
Lt(a, b) == cmp(a, b) = "Less"

----------------------------------------------------------------------------
(* std BinaryHeap over a Vec; positions are 0-based as in the library *)

At(d, i) == d[i + 1]
Put(d, i, x) == [d EXCEPT ![i + 1] = x]
SatSub(a, b) == IF a >= b THEN a - b ELSE 0

RECURSIVE SiftUpLoop(_, _, _, _)
SiftUpLoop(d, e, start, pos) ==
    IF pos > start
    THEN LET parent == (pos - 1) \div 2
         IN  IF Le(e, At(d, parent))
             THEN Put(d, pos, e)
             ELSE SiftUpLoop(Put(d, pos, At(d, parent)), e, start, parent)
    ELSE Put(d, pos, e)

sift_up(d, start, pos) == SiftUpLoop(d, At(d, pos), start, pos)

RECURSIVE SiftDownRangeLoop(_, _, _, _)
SiftDownRangeLoop(d, e, pos, end) ==
    LET child == 2 * pos + 1
    IN  IF child <= SatSub(end, 2)
        THEN LET c == IF Le(At(d, child), At(d, child + 1))
                      THEN child + 1 ELSE child
             IN  IF Ge(e, At(d, c))
                 THEN Put(d, pos, e)
                 ELSE SiftDownRangeLoop(Put(d, pos, At(d, c)), e, c, end)
        ELSE IF child = end - 1 /\ Lt(e, At(d, child))
             THEN Put(Put(d, pos, At(d, child)), child, e)
             ELSE Put(d, pos, e)

sift_down_range(d, pos, end) == SiftDownRangeLoop(d, At(d, pos), pos, end)

RECURSIVE ToBottomLoop(_, _, _, _)
(* returns <<data with the hole moved down, final hole position>> *)
ToBottomLoop(d, e, pos, end) ==
    LET child == 2 * pos + 1
    IN  IF child <= SatSub(end, 2)
        THEN LET c == IF Le(At(d, child), At(d, child + 1))
                      THEN child + 1 ELSE child
             IN  ToBottomLoop(Put(d, pos, At(d, c)), e, c, end)
        ELSE IF child = end - 1
             THEN <<Put(Put(d, pos, At(d, child)), child, e), child>>
             ELSE <<Put(d, pos, e), pos>>

sift_down_to_bottom(d, pos) ==
    LET r == ToBottomLoop(d, At(d, pos), pos, Len(d))
    IN  sift_up(r[1], pos, r[2])

RECURSIVE RebuildLoop(_, _)
RebuildLoop(d, n) ==
    IF n > 0
    THEN RebuildLoop(sift_down_range(d, n - 1, Len(d)), n - 1)
    ELSE d

(* BinaryHeap::from(vec) *)
heap_from(v) == RebuildLoop(v, Len(v) \div 2)

(* BinaryHeap::push *)
heap_push(d, item) == sift_up(Append(d, item), 0, Len(d))

(* BinaryHeap::pop on a non-empty heap: <<item, data>> *)
heap_pop(d) ==
    LET last == d[Len(d)]
        rest == SubSeq(d, 1, Len(d) - 1)
    IN  IF rest = <<>>
        THEN [item |-> last, data |-> rest]
        ELSE [item |-> rest[1],
              data |-> sift_down_to_bottom(Put(rest, 0, last), 0)]

(* Vec::sort: the stable ascending sort by Ord *)
RECURSIVE InsertSorted(_, _)
InsertSorted(s, x) ==
    IF s = <<>> THEN <<x>>
    ELSE IF cmp(s[Len(s)], x) = "Greater"
         THEN Append(InsertSorted(SubSeq(s, 1, Len(s) - 1), x), s[Len(s)])
         ELSE Append(s, x)

RECURSIVE SortFrom(_, _, _)
SortFrom(v, i, acc) ==
    IF i > Len(v) THEN acc ELSE SortFrom(v, i + 1, InsertSorted(acc, v[i]))

vec_sort(v) == SortFrom(v, 1, <<>>)

RECURSIVE PushAll(_, _, _)
PushAll(d, v, i) ==
    IF i > Len(v) THEN d ELSE PushAll(heap_push(d, v[i]), v, i + 1)

----------------------------------------------------------------------------
(* QueueManager: each operator returns the new heap, the snapshots sent on
   the persistence channel and the value returned to the caller *)

(* snapshot() that drains the heap and does not push the clones back *)
snapshot_drain(h) == [v |-> vec_sort(h), heap |-> <<>>]

(* snapshot(): drain, sort, push the clones back, return the sorted Vec *)
snapshot(h) ==
    LET v == vec_sort(h)
    IN  [v |-> v, heap |-> PushAll(<<>>, v, 1)]

notify_persistence(h, tx) ==
    IF tx
    THEN LET s == snapshot(h) IN [heap |-> s.heap, sent |-> <<s.v>>]
    ELSE [heap |-> h, sent |-> <<>>]

load_from_vec(jobs) == heap_from(jobs)

(* push sending the snapshot before the job is in the heap *)
push_notify_first(h, tx, job) ==
    LET n == notify_persistence(h, tx)
    IN  [heap |-> heap_push(n.heap, job), sent |-> n.sent, ret |-> None]

push(h, tx, job) ==
    LET n == notify_persistence(heap_push(h, job), tx)
    IN  [heap |-> n.heap, sent |-> n.sent, ret |-> None]

pop(h, tx) ==
    IF h = <<>>
    THEN [heap |-> h, sent |-> <<>>, ret |-> None]
    ELSE LET p == heap_pop(h)
             n == notify_persistence(p.data, tx)
         IN  [heap |-> n.heap, sent |-> n.sent, ret |-> p.item]

peek(h) == IF h = <<>> THEN None ELSE h[1]

(* position(|j| j.id == id): the first index holding the id, 0 when absent *)
Position(all, id) ==
    IF \E i \in 1..Len(all) : all[i].id = id
    THEN CHOOSE i \in 1..Len(all) :
            /\ all[i].id = id
            /\ \A k \in 1..(i - 1) : all[k].id # id
    ELSE 0

VecRemove(all, i) == SubSeq(all, 1, i - 1) \o SubSeq(all, i + 1, Len(all))

(* remove() that keeps the drained Vec as the heap without rebuilding it *)
remove_no_rebuild(h, tx, id) ==
    LET all == h
        i == Position(all, id)
    IN  IF i # 0
        THEN LET n == notify_persistence(VecRemove(all, i), tx)
             IN  [heap |-> n.heap, sent |-> n.sent, ret |-> all[i]]
        ELSE [heap |-> all, sent |-> <<>>, ret |-> None]

(* remove() sending the snapshot before the job is out of the heap *)
remove_notify_first(h, tx, id) ==
    LET all == h
        i == Position(all, id)
    IN  IF i # 0
        THEN LET n == notify_persistence(heap_from(all), tx)
             IN  [heap |-> heap_from(VecRemove(n.heap, Position(n.heap, id))),
                  sent |-> n.sent, ret |-> all[i]]
        ELSE [heap |-> heap_from(all), sent |-> <<>>, ret |-> None]

(* remove() that hands the job out and leaves it in the store *)
remove_keep(h, tx, id) ==
    LET all == h
        i == Position(all, id)
    IN  IF i # 0
        THEN LET n == notify_persistence(heap_from(all), tx)
             IN  [heap |-> n.heap, sent |-> n.sent, ret |-> all[i]]
        ELSE [heap |-> heap_from(all), sent |-> <<>>, ret |-> None]

remove(h, tx, id) ==
    LET all == h
        i == Position(all, id)
    IN  IF i # 0
        THEN LET n == notify_persistence(heap_from(VecRemove(all, i)), tx)
             IN  [heap |-> n.heap, sent |-> n.sent, ret |-> all[i]]
        ELSE [heap |-> heap_from(all), sent |-> <<>>, ret |-> None]

RECURSIVE PopReadyLoop(_, _, _)
PopReadyLoop(h, t, ready) ==
    IF h # <<>> /\ peek(h).execution_time <= t
    THEN LET p == heap_pop(h)
         IN  PopReadyLoop(p.data, t, Append(ready, p.item))
    ELSE [heap |-> h, ready |-> ready]

(* pop_ready() that leaves the jobs due exactly at t in the store *)
pop_ready_strict(h, tx, t) ==
    LET r == PopReadyLoop(h, t - 1, <<>>)
    IN  IF r.ready # <<>>
        THEN LET n == notify_persistence(r.heap, tx)
             IN  [heap |-> n.heap, sent |-> n.sent, ret |-> r.ready]
        ELSE [heap |-> r.heap, sent |-> <<>>, ret |-> r.ready]

pop_ready(h, tx, t) ==
    LET r == PopReadyLoop(h, t, <<>>)
    IN  IF r.ready # <<>>
        THEN LET n == notify_persistence(r.heap, tx)
             IN  [heap |-> n.heap, sent |-> n.sent, ret |-> r.ready]
        ELSE [heap |-> r.heap, sent |-> <<>>, ret |-> r.ready]

(* update_status writing the status into every stored job *)
update_status_all(h, tx, id, new_status) ==
    LET all == h
        i == Position(all, id)
    IN  IF i # 0
        THEN LET upd == [k \in 1..Len(all) |->
                            [all[k] EXCEPT !.status = new_status]]
                 n == notify_persistence(heap_from(upd), tx)
             IN  [heap |-> n.heap, sent |-> n.sent, ret |-> TRUE]
        ELSE [heap |-> heap_from(all), sent |-> <<>>, ret |-> FALSE]

update_status(h, tx, id, new_status) ==
    LET all == h
        i == Position(all, id)
    IN  IF i # 0
        THEN LET upd == [all EXCEPT ![i].status = new_status]
                 n == notify_persistence(heap_from(upd), tx)
             IN  [heap |-> n.heap, sent |-> n.sent, ret |-> TRUE]
        ELSE [heap |-> heap_from(all), sent |-> <<>>, ret |-> FALSE]

----------------------------------------------------------------------------
(* PersistenceManager: the snapshot file. A file's text is a sequence of
   JSON tokens, so that a text cut short is a proper prefix of it. *)

storage_path == "queue.json"

File(data) == [exists |-> TRUE, data |-> data]

(* numbers a snapshot can hold *)
Nums == 0..(MaxJobs + MaxTime + MaxPrio + MaxRetries)

(* tokens of one serialized Job: the braces and eight keys with values *)
JobTokens == 18

(* serde_json's text of one Job: the fields in declaration order, numbers in
   decimal, the status by its variant name *)
job_to_string(j) ==
    <<"{", "id", ToString(j.id),
      "execution_time", ToString(j.execution_time),
      "priority", ToString(j.priority),
      "description", j.description,
      "function", j.function,
      "status", j.status,
      "max_retries", ToString(j.max_retries),
      "retry_count", ToString(j.retry_count), "}">>

RECURSIVE jobs_to_string(_)
jobs_to_string(jobs) ==
    IF jobs = <<>> THEN <<>>
    ELSE job_to_string(jobs[1]) \o jobs_to_string(Tail(jobs))

(* to_string_pretty writing every status as Pending *)
to_string_pending(jobs) ==
    <<"[">> \o jobs_to_string([i \in 1..Len(jobs) |->
                                  [jobs[i] EXCEPT !.status = "Pending"]])
          \o <<"]">>

(* serde_json::to_string_pretty(&jobs_snapshot): Ok for every Vec<Job> *)
to_string_pretty(jobs) == <<"[">> \o jobs_to_string(jobs) \o <<"]">>

IsNum(s) == \E n \in Nums : ToString(n) = s

ParseNum(s) == CHOOSE n \in Nums : ToString(n) = s

(* the 18 tokens t are the text of one Job *)
IsJob(t) ==
    /\ t[1] = "{" /\ t[18] = "}"
    /\ t[2] = "id" /\ IsNum(t[3])
    /\ t[4] = "execution_time" /\ IsNum(t[5])
    /\ t[6] = "priority" /\ IsNum(t[7])
    /\ t[8] = "description"
    /\ t[10] = "function"
    /\ t[12] = "status" /\ t[13] \in Status
    /\ t[14] = "max_retries" /\ IsNum(t[15])
    /\ t[16] = "retry_count" /\ IsNum(t[17])

ParseJob(t) ==
    [id |-> ParseNum(t[3]),
     execution_time |-> ParseNum(t[5]),
     priority |-> ParseNum(t[7]),
     description |-> t[9],
     function |-> t[11],
     status |-> t[13],
     max_retries |-> ParseNum(t[15]),
     retry_count |-> ParseNum(t[17])]

(* the tokens of the k-th object of an array text *)
Chunk(data, k) ==
    SubSeq(data, 2 + (k - 1) * JobTokens, 1 + k * JobTokens)

(* a parser that keeps the jobs read before the first bad one *)
from_str_lenient(data) ==
    LET n == SatSub(Len(data), 2) \div JobTokens
        good == {k \in 0..n : \A i \in 1..k : IsJob(Chunk(data, i))}
        m == CHOOSE k \in good : \A l \in good : l <= k
    IN  [ok |-> TRUE, jobs |-> [k \in 1..m |-> ParseJob(Chunk(data, k))]]

(* serde_json::from_str::<Vec<Job>>(&data): Err unless the text is an array
   of Job objects *)
from_str(data) ==
    LET n == SatSub(Len(data), 2) \div JobTokens
    IN  IF /\ Len(data) >= 2
           /\ data[1] = "[" /\ data[Len(data)] = "]"
           /\ Len(data) = 2 + n * JobTokens
           /\ \A k \in 1..n : IsJob(Chunk(data, k))
        THEN [ok |-> TRUE,
              jobs |-> [k \in 1..n |-> ParseJob(Chunk(data, k))]]
        ELSE [ok |-> FALSE]

(* fs::read_to_string(path) *)
read_to_string(fs, path) ==
    IF fs[path].exists THEN [ok |-> TRUE, data |-> fs[path].data]
    ELSE [ok |-> FALSE]

(* PersistenceManager::load_jobs: the jobs of the file, or an empty Vec when
   the file cannot be read or parsed *)
load_jobs(fs, path) ==
    LET r == read_to_string(fs, path)
    IN  IF ~r.ok THEN <<>>
        ELSE LET p == from_str(r.data)
             IN  IF ~p.ok THEN <<>> ELSE p.jobs

(* a temporary path that is the path itself *)
with_extension_same(path, ext) == path

(* path.with_extension("tmp") *)
with_extension(path, ext) ==
    IF path = storage_path THEN "queue." \o ext ELSE path

temp_path == with_extension(storage_path, "tmp")

(* fs::rename(from, to) succeeding: to holds what from held, from is gone *)
rename(fs, from, to) ==
    IF from = to THEN fs
    ELSE [fs EXCEPT ![to] = fs[from], ![from] = Absent]

(* where a write that fails may stop: the lengths of text already written *)
Cuts(json) == {Len(json) \div 2, Len(json) - 1}

----------------------------------------------------------------------------
(* Actions. ret and calls record what a caller observed; the actions of the
   program leave them to the caller (see Observed and the Call actions). *)

(* room on the persistence channel for one more snapshot *)
ChanRoom == ~snapshot_tx \/ Len(snap_chan) < MaxChan

Engine == <<is_running, handle, epc, ready_jobs, enow, stop_pc,
            worker_chan, loops, lock, poisoned, worker_rx>>

Disk == <<files, wpc, wsnap, main_pc>>

Pool == <<registry, ran, wk_pc>>

(* q.push(Job::new(..)) as the tests, main and the TUI do it; a caller of
   the store waits while the polling thread holds the Mutex, and gets no
   store from a poisoned Mutex *)
Push(execution_time, priority, description, function, max_retries) ==
    LET r == Job_new(nextId, execution_time, priority, description, function,
                     max_retries, now)
    IN  /\ lock = "free" /\ ~poisoned
        /\ ChanRoom
        /\ r.ok
        /\ LET q == push(heap, snapshot_tx, r.job)
           IN  /\ heap' = q.heap
               /\ snap_chan' = snap_chan \o q.sent
        /\ nextId' = nextId + 1
        /\ UNCHANGED <<now, snapshot_tx, held, Engine, Disk, Pool>>

Pop ==
    /\ lock = "free" /\ ~poisoned
    /\ ChanRoom
    /\ LET q == pop(heap, snapshot_tx)
       IN  /\ heap' = q.heap
           /\ snap_chan' = snap_chan \o q.sent
    /\ UNCHANGED <<now, nextId, snapshot_tx, held, Engine, Disk, Pool>>

Peek ==
    /\ lock = "free" /\ ~poisoned
    /\ UNCHANGED <<now, nextId, heap, snapshot_tx, snap_chan, held, Engine,
                   Disk, Pool>>

Remove(id) ==
    /\ lock = "free" /\ ~poisoned
    /\ ChanRoom
    /\ LET q == remove(heap, snapshot_tx, id)
       IN  /\ heap' = q.heap
           /\ snap_chan' = snap_chan \o q.sent
    /\ UNCHANGED <<now, nextId, snapshot_tx, held, Engine, Disk, Pool>>

PopReady(t) ==
    /\ lock = "free" /\ ~poisoned
    /\ ChanRoom
    /\ LET q == pop_ready(heap, snapshot_tx, t)
       IN  /\ heap' = q.heap
           /\ snap_chan' = snap_chan \o q.sent
    /\ UNCHANGED <<now, nextId, snapshot_tx, held, Engine, Disk, Pool>>

UpdateStatus(id, new_status) ==
    /\ lock = "free" /\ ~poisoned
    /\ ChanRoom
    /\ LET q == update_status(heap, snapshot_tx, id, new_status)
       IN  /\ heap' = q.heap
           /\ snap_chan' = snap_chan \o q.sent
    /\ UNCHANGED <<now, nextId, snapshot_tx, held, Engine, Disk, Pool>>

Snapshot ==
    /\ lock = "free" /\ ~poisoned
    /\ heap' = snapshot(heap).heap
    /\ UNCHANGED <<now, nextId, snapshot_tx, snap_chan, held, Engine, Disk,
                   Pool>>

(* main.rs: q.set_persistence(snapshot_tx) *)
SetPersistence ==
    /\ ~snapshot_tx
    /\ snapshot_tx' = TRUE
    /\ UNCHANGED <<now, nextId, heap, snap_chan, held, Engine, Disk, Pool>>

(* the receiving end of the persistence channel takes the next snapshot;
   what the writer thread of main does with it is WriterTake and after *)
WriterRecv ==
    /\ snap_chan # <<>>
    /\ snap_chan' = Tail(snap_chan)
    /\ UNCHANGED <<now, nextId, heap, snapshot_tx, held, Engine, Disk, Pool>>

(* Vecs of n jobs with ids first, first+1, ... as load_jobs may return *)
KeyPairs == Times \X Prios

LoadedVecs(first, n) ==
    { [i \in 1..n |->
         [id |-> first + i - 1,
          execution_time |-> k[i][1],
          priority |-> k[i][2],
          description |-> "Task 1",
          function |-> "func1",
          status |-> "Pending",
          max_retries |-> MaxRetries,
          retry_count |-> 0]] : k \in [1..n -> KeyPairs] }

(* main.rs: q.load_from_vec(loaded_jobs) on the new QueueManager *)
LoadFromVec(v) ==
    /\ nextId = 1 /\ heap = <<>> /\ ~snapshot_tx
    /\ heap' = load_from_vec(v)
    /\ nextId' = Len(v) + 1
    /\ UNCHANGED <<now, snapshot_tx, snap_chan, held, Engine, Disk, Pool>>

Tick ==
    /\ now < MaxTime
    /\ now' = now + 1
    /\ UNCHANGED <<nextId, heap, snapshot_tx, snap_chan, held, Engine, Disk,
                   Pool>>

(* let mut job = Job::new(..): the caller keeps the job, or gets the Err *)
JobNew(execution_time, priority, description, function, max_retries) ==
    LET r == Job_new(nextId, execution_time, priority, description, function,
                     max_retries, now)
    IN  /\ IF r.ok
           THEN /\ held' = held \cup {r.job}
                /\ nextId' = nextId + 1
           ELSE UNCHANGED <<held, nextId>>
        /\ UNCHANGED <<now, heap, snapshot_tx, snap_chan, Engine, Disk, Pool>>

JobStart(j) ==
    /\ j \in held
    /\ held' = (held \ {j}) \cup {Job_start(j)}
    /\ UNCHANGED <<now, nextId, heap, snapshot_tx, snap_chan, Engine, Disk,
                   Pool>>

JobComplete(j) ==
    /\ j \in held
    /\ held' = (held \ {j}) \cup {Job_complete(j)}
    /\ UNCHANGED <<now, nextId, heap, snapshot_tx, snap_chan, Engine, Disk,
                   Pool>>

JobFailAndRetry(j) ==
    /\ j \in held
    /\ held' = (held \ {j}) \cup {fail_and_retry(j).job}
    /\ UNCHANGED <<now, nextId, heap, snapshot_tx, snap_chan, Engine, Disk,
                   Pool>>

(* the job goes out of scope *)
JobDrop(j) ==
    /\ j \in held
    /\ held' = held \ {j}
    /\ UNCHANGED <<now, nextId, heap, snapshot_tx, snap_chan, Engine, Disk,
                   Pool>>

----------------------------------------------------------------------------
(* TimePriorityEngine *)

Outside == <<now, nextId, snapshot_tx, held, Disk, Pool>>

(* start() spawning a polling thread whether or not a handle is held *)
EngineStart_always ==
    /\ is_running' = TRUE
    /\ epc' = "check"
    /\ loops' = loops + 1
    /\ handle' = TRUE
    /\ UNCHANGED <<Outside, heap, snap_chan, ready_jobs, enow, stop_pc,
                   worker_chan, lock, worker_rx,
                   poisoned>>

(* start(): a no-op when a handle is held, else set the flag and spawn *)
EngineStart ==
    /\ IF handle
       THEN UNCHANGED <<is_running, epc, handle, loops>>
       ELSE /\ is_running' = TRUE
            /\ epc' = "check"
            /\ loops' = loops + 1
            /\ handle' = TRUE
    /\ UNCHANGED <<Outside, heap, snap_chan, ready_jobs, enow, stop_pc,
                   worker_chan, lock, worker_rx,
                   poisoned>>

(* while running_flag.load(): leave the loop, or begin one more iteration
   with let now = Utc::now().timestamp() *)
EngineCheck ==
    /\ epc = "check"
    /\ epc' = IF is_running THEN "pop" ELSE "exited"
    /\ loops' = IF is_running THEN loops ELSE loops - 1
    /\ enow' = IF is_running THEN now ELSE enow
    /\ UNCHANGED <<Outside, heap, snap_chan, is_running, handle, ready_jobs,
                   stop_pc, worker_chan, lock, worker_rx,
                   poisoned>>

(* the iteration taking copies of the due jobs and leaving the store as it
   is *)
EnginePop_copy ==
    /\ epc = "pop"
    /\ lock = "free"
    /\ ready_jobs' = pop_ready(heap, FALSE, enow).ret
    /\ lock' = "engine"
    /\ epc' = "unlock"
    /\ UNCHANGED <<Outside, heap, snap_chan, is_running, handle, enow,
                   stop_pc, worker_chan, loops, worker_rx,
                   poisoned>>

(* the iteration asking for the jobs due within the next second as well *)
EnginePop_ahead ==
    /\ epc = "pop"
    /\ lock = "free"
    /\ ChanRoom
    /\ LET q == pop_ready(heap, snapshot_tx, enow + 1)
       IN  /\ heap' = q.heap
           /\ snap_chan' = snap_chan \o q.sent
           /\ ready_jobs' = q.ret
    /\ lock' = "engine"
    /\ epc' = "unlock"
    /\ UNCHANGED <<Outside, is_running, handle, enow, stop_pc, worker_chan,
                   loops, worker_rx,
                   poisoned>>

(* the iteration keeping the guard q alive until its end *)
EnginePop_keep_lock ==
    /\ epc = "pop"
    /\ lock = "free"
    /\ ChanRoom
    /\ LET q == pop_ready(heap, snapshot_tx, enow)
       IN  /\ heap' = q.heap
           /\ snap_chan' = snap_chan \o q.sent
           /\ ready_jobs' = q.ret
    /\ lock' = "engine"
    /\ epc' = "send"
    /\ UNCHANGED <<Outside, is_running, handle, enow, stop_pc, worker_chan,
                   loops, worker_rx,
                   poisoned>>

(* the iteration unwrapping the lock: on a poisoned Mutex the thread panics *)
EnginePop_unwrap ==
    /\ epc = "pop"
    /\ lock = "free"
    /\ ChanRoom
    /\ IF poisoned
       THEN /\ epc' = "exited"
            /\ loops' = loops - 1
            /\ UNCHANGED <<heap, snap_chan, ready_jobs, lock>>
       ELSE /\ LET q == pop_ready(heap, snapshot_tx, enow)
               IN  /\ heap' = q.heap
                   /\ snap_chan' = snap_chan \o q.sent
                   /\ ready_jobs' = q.ret
            /\ lock' = "engine"
            /\ epc' = "unlock"
            /\ UNCHANGED loops
    /\ UNCHANGED <<Outside, is_running, handle, enow, stop_pc, worker_chan,
                   worker_rx, poisoned>>

(* if let Ok(mut q) = queue_clone.lock() { ready_jobs = q.pop_ready(now); }
   up to the end of the block, the guard q still alive; when lock() returns
   Err (the Mutex is poisoned) the block is skipped and ready_jobs stays
   empty *)
EnginePop ==
    /\ epc = "pop"
    /\ lock = "free"
    /\ ChanRoom
    /\ IF poisoned
       THEN /\ ready_jobs' = <<>>
            /\ epc' = "send"
            /\ UNCHANGED <<heap, snap_chan, lock>>
       ELSE /\ LET q == pop_ready(heap, snapshot_tx, enow)
               IN  /\ heap' = q.heap
                   /\ snap_chan' = snap_chan \o q.sent
                   /\ ready_jobs' = q.ret
            /\ lock' = "engine"
            /\ epc' = "unlock"
    /\ UNCHANGED <<Outside, is_running, handle, enow, stop_pc, worker_chan,
                   loops, worker_rx, poisoned>>

(* the block ends: the guard q is dropped and the Mutex released *)
EngineUnlock ==
    /\ epc = "unlock"
    /\ lock' = "free"
    /\ epc' = "send"
    /\ UNCHANGED <<Outside, heap, snap_chan, is_running, handle, ready_jobs,
                   enow, stop_pc, worker_chan, loops, worker_rx,
                   poisoned>>

(* the loop over ready_jobs taking the jobs from the back *)
EngineSend_rev ==
    /\ epc = "send"
    /\ ready_jobs # <<>>
    /\ worker_chan' =
          IF worker_rx
          THEN Append(worker_chan,
                      [ready_jobs[Len(ready_jobs)] EXCEPT !.status = "Running"])
          ELSE worker_chan
    /\ ready_jobs' = SubSeq(ready_jobs, 1, Len(ready_jobs) - 1)
    /\ UNCHANGED <<Outside, heap, snap_chan, is_running, handle, epc, enow,
                   stop_pc, loops, lock, worker_rx,
                   poisoned>>

(* a send that hands the job back to the store when the receiver is gone *)
EngineSend_requeue ==
    /\ epc = "send"
    /\ ready_jobs # <<>>
    /\ IF worker_rx
       THEN /\ worker_chan' = Append(worker_chan,
                                [ready_jobs[1] EXCEPT !.status = "Running"])
            /\ UNCHANGED heap
       ELSE /\ heap' = heap_push(heap, ready_jobs[1])
            /\ UNCHANGED worker_chan
    /\ ready_jobs' = Tail(ready_jobs)
    /\ UNCHANGED <<Outside, snap_chan, is_running, handle, epc, enow,
                   stop_pc, loops, lock, worker_rx,
                   poisoned>>

(* for mut job in ready_jobs: job.status = Running; tx_clone.send(job); on
   Err (no receiver) the job is dropped with the error *)
EngineSend ==
    /\ epc = "send"
    /\ ready_jobs # <<>>
    /\ worker_chan' =
          IF worker_rx
          THEN Append(worker_chan, [ready_jobs[1] EXCEPT !.status = "Running"])
          ELSE worker_chan
    /\ ready_jobs' = Tail(ready_jobs)
    /\ UNCHANGED <<Outside, heap, snap_chan, is_running, handle, epc, enow,
                   stop_pc, loops, lock, worker_rx,
                   poisoned>>

(* a polling thread that returns after its first iteration *)
EngineSleep_exit ==
    /\ epc = "send"
    /\ ready_jobs = <<>>
    /\ epc' = "exited"
    /\ enow' = 0
    /\ loops' = loops - 1
    /\ UNCHANGED <<Outside, heap, snap_chan, is_running, handle, ready_jobs,
                   stop_pc, worker_chan, lock, worker_rx,
                   poisoned>>

(* thread::sleep(500ms) ends the iteration and its locals; then back to the
   loop test *)
EngineSleep ==
    /\ epc = "send"
    /\ ready_jobs = <<>>
    /\ epc' = "check"
    /\ enow' = 0
    /\ UNCHANGED <<Outside, heap, snap_chan, is_running, handle, ready_jobs,
                   stop_pc, worker_chan, loops, lock, worker_rx,
                   poisoned>>

(* stop(): is_running.store(false), then lock the handle *)
EngineStopSignal ==
    /\ stop_pc = "idle"
    /\ is_running' = FALSE
    /\ stop_pc' = "join"
    /\ UNCHANGED <<Outside, heap, snap_chan, handle, epc, ready_jobs, enow,
                   worker_chan, loops, lock, worker_rx,
                   poisoned>>

(* stop() taking the handle and returning without join() *)
EngineStopJoin_no_join ==
    /\ stop_pc = "join"
    /\ handle' = FALSE
    /\ stop_pc' = "idle"
    /\ UNCHANGED <<Outside, heap, snap_chan, is_running, epc, ready_jobs,
                   enow, worker_chan, loops, lock, worker_rx,
                   poisoned>>

(* handle_lock.take() and join(): returns once the thread has exited *)
EngineStopJoin ==
    /\ stop_pc = "join"
    /\ IF handle
       THEN /\ epc = "exited"
            /\ epc' = "none"
            /\ handle' = FALSE
       ELSE UNCHANGED <<epc, handle>>
    /\ stop_pc' = "idle"
    /\ UNCHANGED <<Outside, heap, snap_chan, is_running, ready_jobs, enow,
                   worker_chan, loops, lock, worker_rx,
                   poisoned>>

(* a thread panics while it holds the guard of the store's Mutex: the Mutex
   is poisoned and every later lock() returns Err *)
LockPanic ==
    /\ lock = "free" /\ ~poisoned
    /\ poisoned' = TRUE
    /\ UNCHANGED <<now, nextId, heap, snapshot_tx, snap_chan, held,
                   is_running, handle, epc, ready_jobs, enow, stop_pc,
                   worker_chan, loops, lock, worker_rx, Disk, Pool>>

(* the receiving end of the handoff channel takes the next job *)
WorkerRecv ==
    /\ worker_rx
    /\ worker_chan # <<>>
    /\ held' = held \cup {worker_chan[1]}
    /\ worker_chan' = Tail(worker_chan)
    /\ UNCHANGED <<now, nextId, heap, snapshot_tx, snap_chan, is_running,
                   handle, epc, ready_jobs, enow, stop_pc, loops, lock,
                   worker_rx, poisoned, Disk, Pool>>

(* the Receiver is dropped, and the jobs still in the channel with it *)
RxDrop ==
    /\ worker_rx
    /\ worker_rx' = FALSE
    /\ worker_chan' = <<>>
    /\ UNCHANGED <<now, nextId, heap, snapshot_tx, snap_chan, held,
                   is_running, handle, epc, ready_jobs, enow, stop_pc, loops,
                   lock, poisoned, Disk, Pool>>

----------------------------------------------------------------------------
(* Worker *)

(* the function names jobs carry: one the tests register, one they do not *)
Functions == {"func1", "missing_func"}

(* run_job(&self, job: &Job): the callables it invokes, and the job after
   the call; the job is borrowed immutably and stays as it is *)
run_job(reg, job) ==
    [job |-> job,
     calls |-> IF job.function \in reg THEN <<job.function>> ELSE <<>>]

(* for job in ready_jobs { self.run_job(&job); } *)
RECURSIVE run_all(_, _)
run_all(reg, jobs) ==
    IF jobs = <<>> THEN <<>>
    ELSE run_job(reg, jobs[1]).calls \o run_all(reg, Tail(jobs))

(* process_once(&self, queue): pop_ready(now) on the store, run_job on each
   job popped; the jobs are dropped at the end *)
process_once(reg, h, tx, t) ==
    LET q == pop_ready(h, tx, t)
    IN  [heap |-> q.heap, sent |-> q.sent, popped |-> q.ret,
         ran |-> run_all(reg, q.ret)]

(* worker.register(name, f), before the worker is started *)
Register(name) ==
    /\ wk_pc = "none"
    /\ registry' = registry \cup {name}
    /\ UNCHANGED <<now, nextId, heap, snapshot_tx, snap_chan, held, Engine,
                   Disk, ran, wk_pc>>

(* worker.run_job(&job) on a job the caller holds *)
RunJob(j) ==
    /\ j \in held
    /\ LET r == run_job(registry, j)
       IN  /\ ran' = ran \o r.calls
           /\ held' = (held \ {j}) \cup {r.job}
    /\ UNCHANGED <<now, nextId, heap, snapshot_tx, snap_chan, Engine, Disk,
                   registry, wk_pc>>

(* worker.process_once(&mut queue) *)
ProcessOnce ==
    /\ wk_pc = "none"
    /\ lock = "free" /\ ~poisoned
    /\ ChanRoom
    /\ LET r == process_once(registry, heap, snapshot_tx, now)
       IN  /\ heap' = r.heap
           /\ snap_chan' = snap_chan \o r.sent
           /\ ran' = ran \o r.ran
    /\ UNCHANGED <<now, nextId, snapshot_tx, held, Engine, Disk, registry,
                   wk_pc>>

(* worker.start(&mut queue) enters its loop, which has no exit *)
WorkerStart ==
    /\ wk_pc = "none"
    /\ wk_pc' = "loop"
    /\ UNCHANGED <<now, nextId, heap, snapshot_tx, snap_chan, held, Engine,
                   Disk, registry, ran>>

(* one iteration of the loop of Worker::start: pop_ready(now) on the store,
   run_job on each job popped, sleep 100 ms *)
WorkerIterate ==
    /\ wk_pc = "loop"
    /\ lock = "free" /\ ~poisoned
    /\ ChanRoom
    /\ LET r == process_once(registry, heap, snapshot_tx, now)
       IN  /\ heap' = r.heap
           /\ snap_chan' = snap_chan \o r.sent
           /\ ran' = ran \o r.ran
    /\ UNCHANGED <<now, nextId, snapshot_tx, held, Engine, Disk, registry,
                   wk_pc>>

(* tx.send(job) by the holder of the handoff Sender, as the tests do *)
TxSend(j) ==
    /\ j \in held
    /\ worker_rx
    /\ held' = held \ {j}
    /\ worker_chan' = Append(worker_chan, j)
    /\ UNCHANGED <<now, nextId, heap, snapshot_tx, snap_chan, is_running,
                   handle, epc, ready_jobs, enow, stop_pc, loops, lock,
                   worker_rx, poisoned, Disk, Pool>>

----------------------------------------------------------------------------
(* The snapshot writer thread and main() *)

Store == <<now, nextId, heap, snapshot_tx, held>>

(* for jobs_snapshot in rx: the writer takes the next snapshot *)
WriterTake ==
    /\ main_pc # "exited"
    /\ wpc = "recv"
    /\ snap_chan # <<>>
    /\ wsnap' = snap_chan[1]
    /\ snap_chan' = Tail(snap_chan)
    /\ wpc' = "create"
    /\ UNCHANGED <<Store, Engine, Pool, files, main_pc>>

(* a writer that writes the snapshot straight into the backing file *)
WriterCreate_in_place(ok) ==
    /\ main_pc # "exited"
    /\ wpc = "create"
    /\ IF ok
       THEN /\ files' = [files EXCEPT ![storage_path] = File(<<>>)]
            /\ wpc' = "write"
            /\ UNCHANGED wsnap
       ELSE /\ wpc' = "recv"
            /\ wsnap' = <<>>
            /\ UNCHANGED files
    /\ UNCHANGED <<Store, Engine, Pool, snap_chan, main_pc>>

(* fs::write(&temp_path, &json), first half: the file is created or cut to
   length 0; on Err the writer goes on to the next snapshot *)
WriterCreate(ok) ==
    /\ main_pc # "exited"
    /\ wpc = "create"
    /\ IF ok
       THEN /\ files' = [files EXCEPT ![temp_path] = File(<<>>)]
            /\ wpc' = "write"
            /\ UNCHANGED wsnap
       ELSE /\ wpc' = "recv"
            /\ wsnap' = <<>>
            /\ UNCHANGED files
    /\ UNCHANGED <<Store, Engine, Pool, snap_chan, main_pc>>

(* a writer that renames whatever a failed write left *)
WriterWrite_no_continue(ok, cut) ==
    LET json == to_string_pretty(wsnap)
    IN  /\ main_pc # "exited"
        /\ wpc = "write"
        /\ cut \in Cuts(json)
        /\ files' = [files EXCEPT ![temp_path] =
                        File(IF ok THEN json ELSE SubSeq(json, 1, cut))]
        /\ wpc' = "rename"
        /\ UNCHANGED <<Store, Engine, Pool, snap_chan, main_pc, wsnap>>

(* fs::write, second half: the whole text gets written, or the write fails
   part way and the writer goes on to the next snapshot *)
WriterWrite(ok, cut) ==
    LET json == to_string_pretty(wsnap)
    IN  /\ main_pc # "exited"
        /\ wpc = "write"
        /\ cut \in Cuts(json)
        /\ IF ok
           THEN /\ files' = [files EXCEPT ![temp_path] = File(json)]
                /\ wpc' = "rename"
                /\ UNCHANGED wsnap
           ELSE /\ files' = [files EXCEPT ![temp_path] =
                                File(SubSeq(json, 1, cut))]
                /\ wpc' = "recv"
                /\ wsnap' = <<>>
        /\ UNCHANGED <<Store, Engine, Pool, snap_chan, main_pc>>

(* fs::rename(&temp_path, &path): on Err nothing is renamed *)
WriterRename(ok) ==
    /\ main_pc # "exited"
    /\ wpc = "rename"
    /\ files' = IF ok THEN rename(files, temp_path, storage_path) ELSE files
    /\ wpc' = "recv"
    /\ wsnap' = <<>>
    /\ UNCHANGED <<Store, Engine, Pool, snap_chan, main_pc>>

(* the next id that is none of jobs nor below n: ids (Uuid::new_v4) are
   never used twice, in a later run of the program either *)
RECURSIVE FreshId(_, _)
FreshId(jobs, n) ==
    IF jobs = <<>> THEN n
    ELSE FreshId(Tail(jobs), IF jobs[1].id >= n THEN jobs[1].id + 1 ELSE n)

(* main: loaded_jobs = persistence.load_jobs(); q.load_from_vec(..) *)
MainLoad ==
    /\ main_pc = "load"
    /\ LET loaded_jobs == load_jobs(files, storage_path)
       IN  /\ heap' = load_from_vec(loaded_jobs)
           /\ nextId' = FreshId(loaded_jobs, nextId)
    /\ main_pc' = "spawn"
    /\ UNCHANGED <<now, snapshot_tx, snap_chan, held, Engine, Pool, files, wpc,
                   wsnap>>

(* main: persistence.start_memory_snapshot() spawns the writer *)
MainStartSnapshot ==
    /\ main_pc = "spawn"
    /\ wpc' = "recv"
    /\ main_pc' = "run"
    /\ UNCHANGED <<Store, snap_chan, Engine, Pool, files, wsnap>>

(* main returns after the TUI and engine.stop(): the process ends and its
   threads with it *)
MainExit ==
    /\ main_pc = "run"
    /\ snapshot_tx
    /\ stop_pc = "idle" /\ ~handle
    /\ main_pc' = "exited"
    /\ UNCHANGED <<Store, snap_chan, Engine, Pool, files, wpc, wsnap>>

(* the process dies at any point and is started again: the store, the
   channel, the writer thread and what it held are gone, the files are what
   they were, and main begins at load_jobs *)
Crash ==
    /\ main_pc \in {"spawn", "run"}
    /\ main_pc' = "load"
    /\ heap' = <<>>
    /\ snapshot_tx' = FALSE
    /\ snap_chan' = <<>>
    /\ held' = {}
    /\ wpc' = "none"
    /\ wsnap' = <<>>
    /\ UNCHANGED <<now, nextId, Engine, Pool, files>>

----------------------------------------------------------------------------
(* What a caller observes of a call: the operation, its argument, the value
   returned, and how many fail_and_retry calls in a row the job built last
   has seen (-1: none built, or another call came in between) *)

Observed(op, arg, val, n) ==
    /\ ret' = [op |-> op, arg |-> arg, val |-> val]
    /\ calls' = n
    /\ UNCHANGED seen

Unobserved == UNCHANGED <<ret, calls, seen>>

CallPush(t, p, d, f, m) ==
    /\ Push(t, p, d, f, m)
    /\ Observed("push", Job_new(nextId, t, p, d, f, m, now).job, None, -1)

CallPop ==
    /\ Pop
    /\ Observed("pop", None, pop(heap, snapshot_tx).ret, -1)

CallPeek ==
    /\ Peek
    /\ Observed("peek", None, peek(heap), -1)

CallRemove(id) ==
    /\ Remove(id)
    /\ Observed("remove", id, remove(heap, snapshot_tx, id).ret, -1)

CallPopReady(t) ==
    /\ PopReady(t)
    /\ Observed("pop_ready", t, pop_ready(heap, snapshot_tx, t).ret, -1)

(* update_status as a caller observes it *)
CallUpdateStatus(id, new_status) ==
    /\ UpdateStatus(id, new_status)
    /\ Observed("update_status", [id |-> id, status |-> new_status],
                update_status(heap, snapshot_tx, id, new_status).ret, -1)

CallSnapshot ==
    /\ Snapshot
    /\ Observed("snapshot", None, snapshot(heap).v, -1)

CallLoadFromVec(v) ==
    /\ LoadFromVec(v)
    /\ Observed("load_from_vec", v, None, -1)

(* engine.start(): val tells whether it found the engine already running *)
CallEngineStart ==
    /\ EngineStart
    /\ Observed("engine_start", None, handle, -1)

(* engine.stop() returns: val tells whether it joined a polling thread *)
CallEngineStop ==
    /\ EngineStopJoin
    /\ Observed("engine_stop", None, handle, -1)

CallJobNew(t, p, d, f, m) ==
    /\ JobNew(t, p, d, f, m)
    /\ Observed("Job_new",
                [execution_time |-> t, priority |-> p, max_retries |-> m,
                 now |-> now],
                Job_new(nextId, t, p, d, f, m, now),
                IF t < now THEN calls ELSE 0)

CallJobStart(j) ==
    /\ JobStart(j)
    /\ Observed("start", j, None, -1)

CallJobComplete(j) ==
    /\ JobComplete(j)
    /\ Observed("complete", j, None, -1)

CallJobFailAndRetry(j) ==
    /\ JobFailAndRetry(j)
    /\ Observed("fail_and_retry", j, fail_and_retry(j).ret,
                IF calls >= 0 THEN calls + 1 ELSE -1)

(* worker.run_job(&job): whether the function was registered, the callables
   invoked and the job after the call *)
CallRunJob(j) ==
    /\ RunJob(j)
    /\ Observed("run_job", [job |-> j, found |-> j.function \in registry],
                run_job(registry, j), -1)

(* the handoff receiver takes a job: rx.recv() in the engine test *)
CallRecv ==
    /\ WorkerRecv
    /\ seen' = Append(seen, [via |-> "handoff", job |-> worker_chan[1]])
    /\ UNCHANGED <<ret, calls>>

(* the jobs of a Vec, each marked with the way it left the store *)
Via(way, jobs) == [i \in 1..Len(jobs) |-> [via |-> way, job |-> jobs[i]]]

(* remove_selected of the TUI: q.remove(id) for an id read from an earlier
   listing of the store; the job it returned, if any *)
CallRemoveSelected(id) ==
    /\ Remove(id)
    /\ LET r == remove(heap, snapshot_tx, id).ret
       IN  seen' = seen \o Via("remove", IF r = None THEN <<>> ELSE <<r>>)
    /\ UNCHANGED <<ret, calls>>

(* process_once: the jobs it popped and ran *)
CallProcessOnce ==
    /\ ProcessOnce
    /\ seen' = seen \o
          Via("poll", process_once(registry, heap, snapshot_tx, now).popped)
    /\ UNCHANGED <<ret, calls>>

(* the polling thread's pop_ready(now) and the Vec it returned *)
CallEnginePop ==
    /\ EnginePop
    /\ Observed("engine_pop",
                [now |-> enow,
                 lock |-> IF poisoned THEN "Err" ELSE "Ok",
                 due |-> Len(pop_ready(heap, snapshot_tx, enow).ret)],
                IF poisoned THEN <<>>
                ELSE pop_ready(heap, snapshot_tx, enow).ret, -1)

----------------------------------------------------------------------------
(* Spec: one caller drives a QueueManager the way the tests and main do *)

(* files main() may find at start: none, text that is no JSON array of
   jobs, a snapshot of an earlier run *)
Garbage == <<"{", "randome", "stuff", "]">>

StartJob(id, status) ==
    [id |-> id, execution_time |-> 0, priority |-> 0,
     description |-> "Task 1", function |-> "func1", status |-> status,
     max_retries |-> MaxRetries, retry_count |-> 0]

(* a snapshot whose second job names no Status *)
BadStatus ==
    <<"[">> \o job_to_string(StartJob(1, "Pending"))
          \o job_to_string(StartJob(2, "Bogus")) \o <<"]">>

Malformed == {Garbage, BadStatus}

(* snapshots an earlier run left: of an empty store, of one Running job *)
Snapshots ==
    {<<"[", "]">>,
     <<"[">> \o job_to_string(StartJob(1, "Running")) \o <<"]">>}

StartFiles ==
    {Absent} \cup {File(d) : d \in Malformed \cup Snapshots}

(* the state main() starts in, over a file system fs *)
Start(fs, pc) ==
    /\ now = 0
    /\ nextId = 1
    /\ heap = <<>>
    /\ snapshot_tx = FALSE
    /\ snap_chan = <<>>
    /\ held = {}
    /\ worker_chan = <<>>
    /\ is_running = FALSE
    /\ handle = FALSE
    /\ epc = "none"
    /\ ready_jobs = <<>>
    /\ enow = 0
    /\ stop_pc = "idle"
    /\ loops = 0
    /\ lock = "free"
    /\ poisoned = FALSE
    /\ worker_rx = TRUE
    /\ registry = {}
    /\ ran = <<>>
    /\ wk_pc = "none"
    /\ files = fs
    /\ wpc = "none"
    /\ wsnap = <<>>
    /\ main_pc = pc
    /\ calls = -1
    /\ seen = <<>>
    /\ ret = [op |-> "new", arg |-> None, val |-> None]

Init == Start([p \in Paths |-> Absent], "none")

Next ==
    \/ \E t \in Times : \E p \in Prios :
          nextId <= MaxJobs /\ CallPush(t, p, "Task 1", "func1", MaxRetries)
    \/ CallPop
    \/ CallPeek
    \/ \E id \in 1..MaxJobs : CallRemove(id)
    \/ \E t \in Times : CallPopReady(t)
    \/ CallSnapshot
    \/ SetPersistence /\ Unobserved
    \/ WriterRecv /\ Unobserved
    \/ \E n \in 1..MaxJobs : \E v \in LoadedVecs(1, n) : CallLoadFromVec(v)

Spec == Init /\ [][Next]_vars

(* SpecJob: a caller builds one job at a time and calls its methods, at most
   MaxCalls fail_and_retry calls in a row *)
JobNext ==
    \/ Tick /\ Unobserved
    \/ \E t \in Times : \E p \in Prios : \E m \in Retries :
          nextId <= MaxJobs /\ held = {}
          /\ CallJobNew(t, p, "Task 1", "func1", m)
    \/ \E j \in held : CallJobStart(j)
    \/ \E j \in held : CallJobComplete(j)
    \/ \E j \in held : calls < MaxCalls /\ CallJobFailAndRetry(j)
    \/ \E j \in held : JobDrop(j) /\ Unobserved

SpecJob == Init /\ [][JobNext]_vars

(* SpecSys: callers, the engine thread and the receiver of the handoff
   channel run against one store *)
SysNext ==
    \/ Tick /\ Unobserved
    \/ \E t \in Times : \E m \in Retries :
          nextId <= SysJobs /\ Push(t, 0, "Task 1", "func1", m) /\ Unobserved
    \/ \E t \in Times : \E m \in Retries :
          nextId <= SysJobs /\ JobNew(t, 0, "Task 1", "func1", m) /\ Unobserved
    \/ \E id \in 1..SysJobs : Remove(id) /\ Unobserved
    \/ \E id \in 1..SysJobs : \E st \in Status :
          UpdateStatus(id, st) /\ Unobserved
    \/ \E j \in held : JobStart(j) /\ Unobserved
    \/ \E j \in held : JobComplete(j) /\ Unobserved
    \/ \E j \in held : JobFailAndRetry(j) /\ Unobserved
    \/ \E j \in held : JobDrop(j) /\ Unobserved
    \/ CallEngineStart
    \/ EngineCheck /\ Unobserved
    \/ EnginePop /\ Unobserved
    \/ EngineUnlock /\ Unobserved
    \/ EngineSend /\ Unobserved
    \/ EngineSleep /\ Unobserved
    \/ EngineStopSignal /\ Unobserved
    \/ CallEngineStop
    \/ WorkerRecv /\ Unobserved

SpecSys == Init /\ [][SysNext]_vars

(* SpecUpd: a caller fills a store, with or without the persistence channel,
   and rewrites statuses in it *)
UpdNext ==
    \/ \E p \in Prios :
          nextId <= UpdJobs /\ CallPush(now, p, "Task 1", "func1", MaxRetries)
    \/ SetPersistence /\ Unobserved
    \/ WriterRecv /\ Unobserved
    \/ \E id \in 1..UpdJobs : \E st \in Status : CallUpdateStatus(id, st)

SpecUpd == Init /\ [][UpdNext]_vars

(* SpecPersist: main() loads the file, starts the writer and attaches the
   channel; then the store is changed while the writer works, until main
   returns. To the writer the engine is one more caller of the store, so
   its thread is left to SpecSys. *)
InitDisk ==
    \E f \in StartFiles :
        Start([p \in Paths |-> IF p = storage_path THEN f ELSE Absent],
              "load")

Running == main_pc = "run" /\ snapshot_tx

Writer ==
    \/ WriterTake
    \/ \E ok \in BOOLEAN : WriterCreate(ok)
    \/ \E ok \in BOOLEAN : \E cut \in Cuts(to_string_pretty(wsnap)) :
          WriterWrite(ok, cut)
    \/ \E ok \in BOOLEAN : WriterRename(ok)

PersistNext ==
    \/ MainLoad /\ Unobserved
    \/ MainStartSnapshot /\ Unobserved
    \/ main_pc = "run" /\ SetPersistence /\ Unobserved
    \/ \E d \in Descs :
          /\ Running /\ nextId <= DiskJobs
          /\ Push(now, 0, d, "func1", MaxRetries) /\ Unobserved
    \/ \E id \in 1..DiskJobs : Running /\ Remove(id) /\ Unobserved
    \/ Writer /\ Unobserved
    \/ MainExit /\ Unobserved

SpecPersist == InitDisk /\ [][PersistNext]_vars

(* the same with the writer thread scheduled whenever it can run *)
SpecPersistFair == SpecPersist /\ WF_vars(Writer /\ Unobserved)

(* s with the entries of es it does not hold yet *)
Once(s, es) ==
    s \o SelectSeq(es, LAMBDA e : \A i \in 1..Len(s) : s[i] # e)

(* q.remove(id) by a caller, over the runs of the program: the job it
   returned, if any *)
CallRemoveLogged(id) ==
    /\ Remove(id)
    /\ LET r == remove(heap, snapshot_tx, id).ret
       IN  seen' = Once(seen, Via("remove", IF r = None THEN <<>> ELSE <<r>>))
    /\ UNCHANGED <<ret, calls>>

(* pop_ready(now) as the polling thread calls it, seen from the store: the
   jobs it popped for dispatch *)
CallPopForDispatch(t) ==
    /\ PopReady(t)
    /\ seen' = Once(seen,
                    Via("dispatch", pop_ready(heap, snapshot_tx, t).ret))
    /\ UNCHANGED <<ret, calls>>

(* SpecCrash: SpecPersist with the process dying and starting again at any
   point. seen keeps, over the restarts, the jobs that were removed by a
   caller or popped for dispatch. *)
CrashNext ==
    \/ MainLoad /\ Unobserved
    \/ MainStartSnapshot /\ Unobserved
    \/ main_pc = "run" /\ SetPersistence /\ Unobserved
    \/ /\ Running /\ nextId <= CrashJobs
       /\ Push(now, 0, "Task 1", "func1", MaxRetries) /\ Unobserved
    \/ \E id \in 1..CrashJobs : Running /\ CallRemoveLogged(id)
    \/ Running /\ CallPopForDispatch(now)
    \/ Writer /\ Unobserved
    \/ Crash /\ Unobserved

SpecCrash == InitDisk /\ [][CrashNext]_vars

(* SpecRun: callers push and remove, list the store and poll it with a
   Worker, while the polling thread dispatches and the handoff receiver
   takes jobs or goes away. ret keeps what pop_ready returned to the polling
   thread in its current iteration. *)
RunNext ==
    \/ Tick /\ Unobserved
    \/ \E t \in Times : \E p \in Prios :
          /\ nextId <= RunJobs
          /\ Push(t, p, "Task 1", "func1", MaxRetries) /\ Unobserved
    \/ \E id \in 1..RunJobs : CallRemoveSelected(id)
    \/ Snapshot /\ Unobserved
    \/ CallProcessOnce
    \/ EngineStart /\ Unobserved
    \/ EngineCheck /\ Unobserved
    \/ CallEnginePop
    \/ EngineUnlock /\ Unobserved
    \/ EngineSend /\ Unobserved
    \/ EngineSleep /\ Unobserved
    \/ EngineStopSignal /\ Unobserved
    \/ EngineStopJoin /\ Unobserved
    \/ CallRecv
    \/ \E j \in held : JobDrop(j) /\ Unobserved
    \/ RxDrop /\ Unobserved
    \/ LockPanic /\ Unobserved

SpecRun == Init /\ [][RunNext]_vars

(* SpecDispatch: the engine test: jobs are pushed, the engine is started and
   stopped, the test receives from the handoff channel *)
Poll ==
    \/ EngineCheck
    \/ EnginePop
    \/ EngineUnlock
    \/ EngineSend
    \/ EngineSleep

DispatchNext ==
    \/ Tick /\ Unobserved
    \/ \E t \in Times : \E p \in Prios :
          /\ nextId <= RunJobs
          /\ Push(t, p, "Task 1", "func1", MaxRetries) /\ Unobserved
    \/ EngineStart /\ Unobserved
    \/ Poll /\ Unobserved
    \/ EngineStopSignal /\ Unobserved
    \/ EngineStopJoin /\ Unobserved
    \/ CallRecv
    \/ \E j \in held : JobDrop(j) /\ Unobserved

SpecDispatch == Init /\ [][DispatchNext]_vars

(* the same with the polling thread scheduled whenever it can run *)
SpecDispatchFair == SpecDispatch /\ WF_vars(Poll /\ Unobserved)

(* SpecWorker: a Worker with some functions registered runs jobs the caller
   holds, polls a store once, or is started on it; jobs also go onto the
   handoff channel as in test_worker_start_channel *)
WorkerNext ==
    \/ \E f \in Functions : Register(f) /\ Unobserved
    \/ \E f \in Functions : \E m \in Retries :
          /\ nextId <= WorkJobs
          /\ JobNew(now, 0, "Task 1", f, m) /\ Unobserved
    \/ \E f \in Functions :
          /\ nextId <= WorkJobs /\ wk_pc = "none"
          /\ Push(now, 0, "Task 1", f, MaxRetries) /\ Unobserved
    \/ \E j \in held : Len(ran) < MaxRan /\ CallRunJob(j)
    \/ \E j \in held : TxSend(j) /\ Unobserved
    \/ \E j \in held : JobDrop(j) /\ Unobserved
    \/ CallProcessOnce
    \/ WorkerStart /\ Unobserved
    \/ WorkerIterate /\ Unobserved

SpecWorker == Init /\ [][WorkerNext]_vars

(* SpecMut: a caller uses every operation of a store that changes it, with
   or without the persistence channel *)
MutNext ==
    \/ \E t \in Times : \E p \in Prios :
          nextId <= MutJobs /\ CallPush(t, p, "Task 1", "func1", MaxRetries)
    \/ CallPop
    \/ \E id \in 1..MutJobs : CallRemove(id)
    \/ \E t \in Times : CallPopReady(t)
    \/ \E id \in 1..MutJobs : \E st \in Status : CallUpdateStatus(id, st)
    \/ SetPersistence /\ Unobserved
    \/ WriterRecv /\ Unobserved

SpecMut == Init /\ [][MutNext]_vars

----------------------------------------------------------------------------
(* What the claims speak of *)

(* the jobs that successive pop() calls return until pop() returns None *)
RECURSIVE PopAll(_, _)
PopAll(h, tx) ==
    IF h = <<>> THEN <<>>
    ELSE LET q == pop(h, tx) IN <<q.ret>> \o PopAll(q.heap, tx)

(* a comes no later than b in the store order: execution_time ascending,
   priority descending among equal times *)
Before(a, b) ==
    \/ a.execution_time < b.execution_time
    \/ a.execution_time = b.execution_time /\ a.priority >= b.priority

StoreOrdered(s) == \A i \in 1..(Len(s) - 1) : Before(s[i], s[i + 1])

Range(s) == {s[i] : i \in 1..Len(s)}

(* s with the elements outside keep dropped *)
RECURSIVE Restrict(_, _)
Restrict(s, keep) ==
    IF s = <<>> THEN <<>>
    ELSE IF s[1] \in keep THEN <<s[1]>> \o Restrict(Tail(s), keep)
         ELSE Restrict(Tail(s), keep)

SameKey(a, b) ==
    a.execution_time = b.execution_time /\ a.priority = b.priority

(* the (execution_time, priority) of each job of s, in order *)
Keys(s) == [i \in 1..Len(s) |-> <<s[i].execution_time, s[i].priority>>]

(* every job of the system, wherever it is *)
AllJobs ==
    Range(heap) \cup held \cup Range(worker_chan) \cup Range(ready_jobs)

(* C1: whatever pushes, loads and other calls built the store, popping until
   None yields every stored job once, in non-decreasing execution_time and,
   among equal times, non-increasing priority; pop on the empty store
   returns None and leaves it empty *)
C1_PopOrder ==
    LET s == PopAll(heap, snapshot_tx)
    IN  /\ Range(s) = Range(heap)
        /\ Len(s) = Len(heap)
        /\ StoreOrdered(s)
        /\ pop(<<>>, snapshot_tx).ret = None
        /\ pop(<<>>, snapshot_tx).heap = <<>>
        /\ (ret.op = "pop" /\ ret.val = None => heap = <<>>)

C1_Witness ==
    /\ ret.op = "pop" /\ ret.val # None
    /\ Len(heap) = 2
    /\ heap[1].execution_time = heap[2].execution_time
    /\ heap[1].priority # heap[2].priority
    /\ ret.val.execution_time < heap[1].execution_time

(* what pop_ready(t) returns and leaves, whatever the order of the rest *)
C2_Sets(t) ==
    LET due == {j \in Range(heap) : j.execution_time <= t}
        rest == Range(heap) \ due
        r == ret'.val
    IN  /\ Range(r) = due /\ Len(r) = Cardinality(due)
        /\ StoreOrdered(r)
        /\ Range(heap') = rest /\ Len(heap') = Cardinality(rest)
        /\ (due = {} => r = <<>> /\ heap' = heap /\ snap_chan' = snap_chan)

(* C2 as claimed: pop_ready(t) returns exactly the stored jobs with
   execution_time <= t, in store order, and leaves exactly the jobs with
   execution_time > t, which are later popped in the same relative order as
   if pop_ready had not been called; when nothing is due it returns nothing
   and the store is unchanged *)
C2_Original ==
    [][\A t \in Times : CallPopReady(t) =>
          /\ C2_Sets(t)
          /\ PopAll(heap', snapshot_tx)
               = Restrict(PopAll(heap, snapshot_tx), Range(heap'))]_vars

(* C2 as amended: the same, except that the jobs left are later popped in
   the same order of (execution_time, priority) as without the call: jobs
   that agree on both may come out in another order *)
C2_PopReady ==
    [][\A t \in Times : CallPopReady(t) =>
          /\ C2_Sets(t)
          /\ Keys(PopAll(heap', snapshot_tx))
               = Keys(Restrict(PopAll(heap, snapshot_tx), Range(heap')))]_vars

C2_Witness ==
    /\ ret.op = "pop_ready"
    /\ Len(ret.val) = 2
    /\ ret.val[1].execution_time = ret.val[2].execution_time
    /\ ret.val[1].priority > ret.val[2].priority
    /\ Len(heap) = 2
    /\ SameKey(heap[1], heap[2])
    /\ snapshot_tx

(* what remove(id) returns and leaves, whatever the order of the rest *)
C3_Sets(id) ==
    LET present == {j \in Range(heap) : j.id = id}
        rest == Range(heap) \ present
    IN  IF present # {}
        THEN /\ ret'.val \in present
             /\ Range(heap') = rest
             /\ Len(heap') = Len(heap) - 1
        ELSE /\ ret'.val = None
             /\ heap' = heap
             /\ snap_chan' = snap_chan

(* C3 as claimed: remove(id) of a stored id returns that job, takes exactly
   that job out and leaves the pop order of every other job unchanged;
   remove(id) of an absent id returns None and leaves the store unchanged *)
C3_Original ==
    [][\A id \in 1..MaxJobs : CallRemove(id) =>
          /\ C3_Sets(id)
          /\ PopAll(heap', snapshot_tx)
               = Restrict(PopAll(heap, snapshot_tx), Range(heap'))]_vars

(* C3 as amended: the same, except that the other jobs keep their pop order
   by (execution_time, priority): jobs that agree on both may come out in
   another order *)
C3_Remove ==
    [][\A id \in 1..MaxJobs : CallRemove(id) =>
          /\ C3_Sets(id)
          /\ Keys(PopAll(heap', snapshot_tx))
               = Keys(Restrict(PopAll(heap, snapshot_tx), Range(heap')))]_vars

C3_Witness ==
    /\ ret.op = "remove" /\ ret.val # None
    /\ Len(heap) = 3
    /\ \A i \in 1..3 : SameKey(heap[i], ret.val)

(* C4: snapshot() returns the stored jobs in store order, the first being
   the job peek/pop would return *)
C4_SnapshotOrder ==
    ret.op = "snapshot" =>
        /\ StoreOrdered(ret.val)
        /\ (ret.val # <<>> => SameKey(ret.val[1], peek(heap)))

(* C5 as claimed: snapshot() returns every stored job once and leaves the
   store with the same jobs, so that later pops return what they would have
   returned without the call *)
C5_Original ==
    [][CallSnapshot =>
          /\ Range(ret'.val) = Range(heap) /\ Len(ret'.val) = Len(heap)
          /\ Range(heap') = Range(heap) /\ Len(heap') = Len(heap)
          /\ PopAll(heap', snapshot_tx) = PopAll(heap, snapshot_tx)]_vars

(* C5 as amended: snapshot() returns every stored job once and leaves the
   store with the same jobs (ids and fields), and later pops return jobs of
   the same (execution_time, priority) as without the call: jobs that agree
   on both may come out in another order *)
C5_Snapshot ==
    [][CallSnapshot =>
          /\ Range(ret'.val) = Range(heap) /\ Len(ret'.val) = Len(heap)
          /\ Range(heap') = Range(heap) /\ Len(heap') = Len(heap)
          /\ Keys(PopAll(heap', snapshot_tx))
               = Keys(PopAll(heap, snapshot_tx))]_vars

C5_Witness ==
    /\ ret.op = "snapshot"
    /\ Len(ret.val) = 3
    /\ Range(ret.val) = Range(heap)
    /\ \E i, k \in 1..3 : i # k /\ SameKey(heap[i], heap[k])
    /\ \E i, k \in 1..3 : ~SameKey(heap[i], heap[k])

(* C6: Job::new with execution_time < now returns an error and creates no
   job; with execution_time >= now it returns a job with status Pending,
   retry_count 0 and the execution_time, priority and max_retries given *)
C6_JobNew ==
    ret.op = "Job_new" =>
        LET a == ret.arg
            r == ret.val
        IN  IF a.execution_time < a.now
            THEN /\ ~r.ok
                 /\ DOMAIN r = {"ok"}
                 /\ held = {}
            ELSE /\ r.ok
                 /\ r.job.status = "Pending"
                 /\ r.job.retry_count = 0
                 /\ r.job.execution_time = a.execution_time
                 /\ r.job.priority = a.priority
                 /\ r.job.max_retries = a.max_retries
                 /\ held \subseteq {r.job}

C6_Witness ==
    /\ ret.op = "Job_new"
    /\ ret.arg.execution_time < ret.arg.now
    /\ ~ret.val.ok

(* C7: fail_and_retry on a job with retry_count < max_retries adds one to
   retry_count, sets status Pending and returns true; on a job with
   retry_count = max_retries it sets status Failed, leaves retry_count and
   returns false *)
C7_FailAndRetry ==
    ret.op = "fail_and_retry" =>
        \A j2 \in held :
            LET j == ret.arg
            IN  /\ j.retry_count < j.max_retries =>
                    /\ j2.retry_count = j.retry_count + 1
                    /\ j2.status = "Pending"
                    /\ ret.val = TRUE
                /\ j.retry_count = j.max_retries =>
                    /\ j2.retry_count = j.retry_count
                    /\ j2.status = "Failed"
                    /\ ret.val = FALSE

C7_Witness ==
    /\ ret.op = "fail_and_retry"
    /\ ret.arg.max_retries = 1 /\ ret.arg.retry_count = 1
    /\ ret.arg.status = "Pending"
    /\ \E j2 \in held : j2.status = "Failed" /\ j2.retry_count = 1
    /\ calls = 2

(* C8 as claimed: on a job fresh from Job::new, max_retries calls of
   fail_and_retry in a row end with status Failed (read for at least one
   call); fewer leave it Pending with retry_count the number of calls made *)
C8_Original ==
    \A j \in held :
        calls >= 0 =>
            /\ calls = j.max_retries /\ calls >= 1 => j.status = "Failed"
            /\ calls < j.max_retries =>
                  j.status = "Pending" /\ j.retry_count = calls

(* C8 as amended: max_retries + 1 calls of fail_and_retry in a row end with
   status Failed (and retry_count = max_retries); max_retries calls or fewer
   leave the job Pending with retry_count the number of calls made *)
C8_RetriesInARow ==
    \A j \in held :
        calls >= 0 =>
            /\ calls = j.max_retries + 1 =>
                  j.status = "Failed" /\ j.retry_count = j.max_retries
            /\ calls <= j.max_retries =>
                  j.status = "Pending" /\ j.retry_count = calls

C8_Witness ==
    \E j \in held :
        /\ j.max_retries = 1
        /\ calls = 2
        /\ j.status = "Failed"

(* C9: retry_count <= max_retries for every job built by Job::new, wherever
   it is, after any sequence of start, complete, fail_and_retry, store
   operations and dispatch *)
C9_RetryBound == \A j \in AllJobs : j.retry_count <= j.max_retries

C9_Witness ==
    /\ epc # "none"
    /\ \E j \in held :
          /\ j.status = "Failed"
          /\ j.retry_count = j.max_retries
          /\ j.max_retries >= 1
          /\ j.execution_time <= now

(* C10: the only changes of a job's status are Pending->Running,
   Running->Success, Running->Failed and Running->Pending; in particular a
   job that is Success or Failed keeps that status *)
AllowedChanges ==
    {<<"Pending", "Running">>, <<"Running", "Success">>,
     <<"Running", "Failed">>, <<"Running", "Pending">>}

C10_Transitions ==
    [][\A a \in AllJobs : \A b \in AllJobs' :
          a.id = b.id /\ a.status # b.status =>
              <<a.status, b.status>> \in AllowedChanges]_vars

(* C11: every job held in the store has status Pending, after any sequence
   of push, pop, pop_ready, remove, update_status, snapshot, load_from_vec
   and engine ticks *)
C11_StorePending == \A i \in 1..Len(heap) : heap[i].status = "Pending"

(* s with the status of the job id replaced by st *)
WithStatus(s, id, st) ==
    [i \in 1..Len(s) |->
        IF s[i].id = id THEN [s[i] EXCEPT !.status = st] ELSE s[i]]

(* what update_status(id, st) returns and leaves, whatever the pop order *)
C12_Sets(id, st) ==
    IF \E j \in Range(heap) : j.id = id
    THEN /\ ret'.val = TRUE
         /\ Range(heap') = Range(WithStatus(heap, id, st))
         /\ Len(heap') = Len(heap)
    ELSE /\ ret'.val = FALSE
         /\ heap' = heap
         /\ snap_chan' = snap_chan

(* C12 as claimed: update_status(id, s) on a stored id sets that job's
   status to s, returns true and changes nothing else: no other field, no
   other job, len() and the pop order stay; on an absent id it returns false
   and leaves the store unchanged *)
C12_Original ==
    [][ret'.op = "update_status"
          /\ CallUpdateStatus(ret'.arg.id, ret'.arg.status) =>
              /\ C12_Sets(ret'.arg.id, ret'.arg.status)
              /\ PopAll(heap', snapshot_tx)
                   = WithStatus(PopAll(heap, snapshot_tx),
                                ret'.arg.id, ret'.arg.status)]_vars

(* C12 as amended: the same, except that the pop order stays by
   (execution_time, priority): jobs that agree on both may come out in
   another order *)
C12_UpdateStatus ==
    [][ret'.op = "update_status"
          /\ CallUpdateStatus(ret'.arg.id, ret'.arg.status) =>
              /\ C12_Sets(ret'.arg.id, ret'.arg.status)
              /\ Keys(PopAll(heap', snapshot_tx))
                   = Keys(PopAll(heap, snapshot_tx))]_vars

C12_Witness ==
    /\ ret.op = "update_status" /\ ret.val = TRUE
    /\ Len(heap) >= 2
    /\ \E i \in 1..Len(heap) :
          heap[i].id = ret.arg.id /\ heap[i].status = ret.arg.status
                                  /\ heap[i].status # "Pending"
    /\ \E i \in 1..Len(heap) : heap[i].status = "Pending"

(* the writer is inside its loop body, a snapshot in hand *)
Busy == {"create", "write", "rename"}

(* f holds the complete text of a snapshot *)
Complete(f) == f.exists /\ from_str(f.data).ok

(* C13: load_jobs returns an empty Vec, and main goes on, both when the
   backing file does not exist and when its contents are malformed; the
   store built from the result is empty *)
C13_LoadJobs ==
    [][/\ main_pc = "load" /\ main_pc' # "load"
       /\ \/ ~files[storage_path].exists
          \/ files[storage_path].data \in Malformed
       => /\ load_jobs(files, storage_path) = <<>>
          /\ heap' = <<>>
          /\ main_pc' = "spawn"]_vars

C13_Witness ==
    /\ main_pc = "run" /\ snapshot_tx /\ wpc = "recv"
    /\ files[storage_path].exists
    /\ files[storage_path].data = BadStatus
    /\ heap = <<>> /\ nextId = 1

(* id, description and status of each job of s *)
Triples(s) == {<<s[i].id, s[i].description, s[i].status>> : i \in 1..Len(s)}

SameJobs(a, b) == Len(a) = Len(b) /\ Triples(a) = Triples(b)

(* C14 as claimed: once the writer has processed a snapshot of N jobs,
   load_jobs returns N jobs with the ids, descriptions and statuses of the
   snapshot *)
C14_Original ==
    [][(wpc \in Busy /\ wpc' = "recv") =>
          SameJobs(load_jobs(files', storage_path), wsnap)]_vars

(* C14 as amended: once the writer has written and renamed a snapshot of N
   jobs without an error, load_jobs returns N jobs with the ids,
   descriptions and statuses of the snapshot *)
C14_RoundTrip ==
    [][WriterRename(TRUE) =>
          SameJobs(load_jobs(files', storage_path), wsnap)]_vars

C14_Witness ==
    /\ wpc = "recv"
    /\ ~files[temp_path].exists
    /\ LET jobs == load_jobs(files, storage_path)
       IN  /\ Len(jobs) = 2
           /\ jobs[1].description # jobs[2].description
           /\ \E i \in 1..2 : jobs[i].status = "Running"

(* C15: the file at storage_path is never a partly written snapshot: it is
   what main found at start or the complete text of a snapshot, and it only
   ever changes to the complete text of the snapshot the writer took off the
   channel *)
C15_NoPartialFile ==
    /\ [](\/ ~files[storage_path].exists
          \/ files[storage_path].data \in Malformed
          \/ Complete(files[storage_path]))
    /\ [][files'[storage_path] # files[storage_path] =>
             /\ wpc = "rename"
             /\ files'[storage_path] = File(to_string_pretty(wsnap))]_vars

C15_Witness ==
    /\ wpc = "write"
    /\ files[temp_path] = File(<<>>)
    /\ Complete(files[storage_path])
    /\ Len(load_jobs(files, storage_path)) = 2
    /\ Len(wsnap) = 1

(* a step of the writer that meets an error *)
WriterFails ==
    \/ WriterCreate(FALSE)
    \/ \E cut \in Cuts(to_string_pretty(wsnap)) : WriterWrite(FALSE, cut)
    \/ WriterRename(FALSE)

(* C16: when writing a snapshot fails, the file at storage_path is what it
   was before the snapshot was taken, the writer goes back to receive the
   next snapshot, and the store and the engine are left as they were *)
C16_FailedWrite ==
    /\ [][(wpc \in Busy /\ ~WriterRename(TRUE)) =>
             files'[storage_path] = files[storage_path]]_vars
    /\ [][WriterFails =>
             /\ files'[storage_path] = files[storage_path]
             /\ wpc' = "recv"
             /\ UNCHANGED <<Store, Engine, Pool, snap_chan, main_pc>>]_vars

C16_Witness ==
    /\ wpc = "recv"
    /\ snap_chan # <<>>
    /\ files[temp_path].exists /\ files[temp_path].data # <<>>
    /\ ~Complete(files[temp_path])
    /\ Len(load_jobs(files, storage_path)) = 1

(* every snapshot sent has been written and the file holds the store *)
Landed ==
    /\ snap_chan = <<>> /\ wpc = "recv"
    /\ Range(load_jobs(files, storage_path)) = Range(heap)

(* C17: when main returns with a snapshot still on the channel or in the
   writer's hands, that snapshot is eventually written and the file then
   holds the store's final contents *)
C17_LastSnapshotLands ==
    (main_pc = "exited" /\ (snap_chan # <<>> \/ wpc \in Busy)) ~> Landed

(* C18: start() on an engine that is already running changes nothing, and
   under any sequence of start() and stop() calls at most one polling loop
   of the engine exists at any time *)
C18_OneLoop ==
    /\ [](loops <= 1)
    /\ [][(handle /\ CallEngineStart) =>
             UNCHANGED <<Engine, heap, snap_chan>>]_vars

C18_Witness ==
    /\ ret.op = "engine_start" /\ ret.val = TRUE
    /\ loops = 1
    /\ epc = "send" /\ ready_jobs # <<>>

(* C19: a start() that follows a stop() that has returned from joining the
   polling loop starts no polling loop *)
C19_NoRestart ==
    [][(ret.op = "engine_stop" /\ ret.val = TRUE /\ CallEngineStart) =>
          loops' = 0 /\ epc' = epc /\ is_running' = is_running]_vars

(* C20: stop() on a running engine returns only when the polling thread has
   finished, with nothing left to send; while no handle is held no polling
   thread exists, so nothing is popped or sent until a start(); and once the
   flag is cleared the loop test lets no further iteration begin *)
C20_StopJoins ==
    /\ [][(handle /\ CallEngineStop) =>
             epc = "exited" /\ loops = 0 /\ ready_jobs = <<>>]_vars
    /\ [](~handle => loops = 0 /\ epc \notin {"check", "pop", "send"})
    /\ [][(~is_running /\ epc = "check") => epc' # "pop"]_vars

C20_Witness ==
    /\ ret.op = "engine_stop" /\ ret.val = TRUE
    /\ ~handle /\ loops = 0 /\ stop_pc = "idle"
    /\ \E j \in Range(worker_chan) : j.status = "Running"
    /\ heap # <<>>

----------------------------------------------------------------------------
(* The engine and the worker *)

(* the job with this id is in the store and its execution_time has come *)
Due(id) ==
    \E i \in 1..Len(heap) : heap[i].id = id /\ heap[i].execution_time <= now

(* the jobs sent on the handoff channel so far, in the order they were sent:
   those the receiver has taken, then those still in the channel *)
Handoff ==
    LET took == SelectSeq(seen, LAMBDA e : e.via = "handoff")
    IN  [i \in 1..Len(took) |-> took[i].job] \o worker_chan

Dispatched(id) == \E i \in 1..Len(Handoff) : Handoff[i].id = id

(* C21: while the engine is running, every job in the store whose
   execution_time has come is eventually sent on the handoff channel, and
   the jobs sent are sent in the order of their execution_time: a job due
   now before a job due later *)
C21_Dispatch ==
    /\ \A id \in 1..RunJobs : Due(id) ~> (Dispatched(id) \/ ~is_running)
    /\ [](\A i \in 1..Len(Handoff) : \A j \in i..Len(Handoff) :
             Handoff[i].execution_time <= Handoff[j].execution_time)

(* the receiver has taken the job due at 0 and then the job due at 1, as in
   engine_dispatches_jobs_on_time *)
C21_Witness ==
    /\ Len(seen) = 2
    /\ seen[1].job.execution_time = 0
    /\ seen[2].job.execution_time = 1
    /\ is_running

(* the jobs of the store due later than t *)
Later(h, t) == {h[i] : i \in {k \in 1..Len(h) : h[k].execution_time > t}}

(* C22: the engine never dispatches a job early: the jobs an iteration popped
   have execution_time <= the time it read at its start, every job sent on
   the handoff channel has execution_time <= the clock, and the pop_ready of
   an iteration leaves in the store every job due later than the time read *)
C22_NeverEarly ==
    /\ [](/\ enow <= now
          /\ epc \in {"unlock", "send"} =>
               \A i \in 1..Len(ready_jobs) :
                  ready_jobs[i].execution_time <= enow
          /\ \A i \in 1..Len(Handoff) : Handoff[i].execution_time <= now)
    /\ [][(epc = "pop" /\ epc' = "unlock") =>
             /\ Later(heap', enow) = Later(heap, enow)
             /\ Len(heap') = Cardinality(Later(heap, enow))]_vars

(* an iteration has popped a due job and left one due later in the store *)
C22_Witness ==
    /\ epc = "send"
    /\ ready_jobs # <<>>
    /\ \E i \in 1..Len(heap) : heap[i].execution_time > enow

(* job as the engine sends it *)
AsSent(j) == [j EXCEPT !.status = "Running"]

(* C23: every job on the handoff channel, and every job the receiver took
   from it, has status Running; and while an iteration sends the k jobs its
   pop_ready returned (ret.val, in store order), the last jobs sent are the
   first of them, in that order, and the rest are still to be sent in that
   order *)
C23_SendOrder ==
    /\ \A i \in 1..Len(Handoff) : Handoff[i].status = "Running"
    /\ (epc \in {"unlock", "send"} /\ worker_rx /\ ret.op = "engine_pop") =>
          LET popped == ret.val
              k == Len(popped) - Len(ready_jobs)
              n == Len(Handoff)
          IN  /\ StoreOrdered(popped)
              /\ 0 <= k /\ k <= n
              /\ \A i \in 1..k : Handoff[n - k + i] = AsSent(popped[i])
              /\ ready_jobs = SubSeq(popped, k + 1, Len(popped))

(* an iteration popped two jobs of different priority and has sent both *)
C23_Witness ==
    /\ epc = "send" /\ worker_rx /\ ret.op = "engine_pop"
    /\ Len(ret.val) = 2 /\ ready_jobs = <<>>
    /\ ret.val[1].priority > ret.val[2].priority
    /\ Len(worker_chan) = 2

(* C24: run_job on a job whose function is registered invokes the registered
   callable exactly once and leaves the job with status Success *)
C24_RunRegistered ==
    (ret.op = "run_job" /\ ret.arg.found) =>
        /\ ret.val.calls = <<ret.arg.job.function>>
        /\ ret.val.job.status = "Success"

(* C25: run_job on a job whose function is not registered invokes no
   callable and leaves the job as fail_and_retry leaves it: retry_count one
   higher and status Pending if retry_count < max_retries, else status
   Failed *)
C25_RunUnregistered ==
    (ret.op = "run_job" /\ ~ret.arg.found) =>
        /\ ret.val.calls = <<>>
        /\ ret.val.job = fail_and_retry(ret.arg.job).job

(* C26: a started worker runs the jobs of the handoff channel, one at a
   time from its front: a step in which it invokes callables takes the
   first job off the channel and invokes what run_job invokes for it *)
C26_WorkerStart ==
    [][(wk_pc = "loop" /\ ran' # ran) =>
          /\ worker_chan # <<>>
          /\ worker_chan' = Tail(worker_chan)
          /\ ran' = ran \o run_job(registry, worker_chan[1]).calls]_vars

Ids(s) == [i \in 1..Len(s) |-> s[i].id]

NoDup(s) == \A i \in 1..Len(s) : \A j \in 1..Len(s) : s[i] = s[j] => i = j

(* the jobs on their way: in the store, popped by the polling thread and not
   yet sent, on the handoff channel *)
Pipeline == heap \o ready_jobs \o worker_chan

(* C27: a job is in one place only: no id occurs twice among the store, the
   jobs popped and waiting to be sent, and the handoff channel; a job the
   receiver holds or that was taken by the receiver or run by a polling
   worker is in none of these; and no job is taken or run twice *)
C27_Exclusive ==
    /\ NoDup(Ids(Pipeline))
    /\ NoDup([i \in 1..Len(seen) |-> seen[i].job.id])
    /\ \A i \in 1..Len(seen) : \A k \in 1..Len(Pipeline) :
          seen[i].job.id # Pipeline[k].id
    /\ \A j \in held : \A k \in 1..Len(Pipeline) : j.id # Pipeline[k].id
    /\ \A j \in held : \A k \in held : j.id = k.id => j = k

(* one job went through the handoff channel to the receiver, another was
   popped and run by Worker::process_once *)
C27_Witness ==
    /\ \E i \in 1..Len(seen) : seen[i].via = "handoff"
    /\ \E i \in 1..Len(seen) : seen[i].via = "poll"
    /\ held # {}

(* this step is a call of the store that changes what the store holds: a
   push, a pop or remove that returns a job, a pop_ready that returns jobs,
   an update_status that returns true *)
Mutation ==
    \/ /\ ret'.op = "push"
       /\ CallPush(ret'.arg.execution_time, ret'.arg.priority,
                   ret'.arg.description, ret'.arg.function,
                   ret'.arg.max_retries)
    \/ ret'.op = "pop" /\ ret'.val # None /\ CallPop
    \/ ret'.op = "remove" /\ ret'.val # None /\ CallRemove(ret'.arg)
    \/ ret'.op = "pop_ready" /\ ret'.val # <<>> /\ CallPopReady(ret'.arg)
    \/ /\ ret'.op = "update_status" /\ ret'.val = TRUE
       /\ CallUpdateStatus(ret'.arg.id, ret'.arg.status)

(* C28: with a persistence sender set, every call of the store that changes
   its contents puts exactly one snapshot onto the persistence channel, and
   the snapshot holds exactly the jobs the store holds when the call
   returns *)
C28_OneSnapshot ==
    [][(snapshot_tx /\ Mutation) =>
          /\ Len(snap_chan') = Len(snap_chan) + 1
          /\ SubSeq(snap_chan', 1, Len(snap_chan)) = snap_chan
          /\ LET s == snap_chan'[Len(snap_chan')]
             IN  Range(s) = Range(heap') /\ Len(s) = Len(heap')]_vars

(* update_status has just sent the snapshot of a store of two jobs *)
C28_Witness ==
    /\ snapshot_tx
    /\ ret.op = "update_status" /\ ret.val = TRUE
    /\ snap_chan # <<>>
    /\ Len(heap) = 2
    /\ Range(snap_chan[Len(snap_chan)]) = Range(heap)

(* C29: the polling thread holds the store lock only between its pop_ready
   and the end of the block around it: while it sends, and at every other
   point of its loop, the lock is free, so a caller's push or remove is not
   kept waiting by a handoff send *)
C29_LockNotHeldOnSend ==
    /\ lock = "engine" => epc = "unlock"
    /\ epc = "send" => lock = "free"

(* the polling thread is between two sends of one iteration *)
C29_Witness ==
    /\ epc = "send"
    /\ ready_jobs # <<>>
    /\ worker_chan # <<>>
    /\ lock = "free"

(* a send of the polling thread that fails: no receiver is left *)
FailedSend ==
    /\ epc = "send" /\ ready_jobs # <<>> /\ ready_jobs' = Tail(ready_jobs)
    /\ ~worker_rx

(* C30: when the receiver of the handoff channel is gone, a job the polling
   thread popped is dropped by its send: it goes neither back into the store
   nor onto the channel nor to the receiver, and the polling thread stays in
   its loop, which it only leaves when is_running is false *)
C30_DroppedOnClosed ==
    /\ [][FailedSend =>
             /\ heap' = heap
             /\ worker_chan' = worker_chan /\ worker_chan = <<>>
             /\ seen' = seen /\ held' = held
             /\ \A k \in 1..Len(Pipeline') : Pipeline'[k].id # ready_jobs[1].id
             /\ epc' = "send" /\ loops' = loops]_vars
    /\ [][(epc # "exited" /\ epc' = "exited") => ~is_running]_vars

(* after the receiver went away the polling thread popped a due job, lost
   it, and goes on with its loop *)
C30_Witness ==
    /\ ~worker_rx
    /\ ret.op = "engine_pop" /\ ret.val # <<>>
    /\ epc = "send" /\ ready_jobs = <<>>
    /\ is_running
    /\ \A k \in 1..Len(Pipeline) : Pipeline[k].id # ret.val[1].id

(* C31: an iteration whose lock() on the store returns Err pops and
   dispatches nothing and leaves the store and its snapshots as they were,
   the thread goes on to its sleep, leaves the loop only at a loop test that
   finds the flag cleared, and from a loop test that finds it set the next
   iteration tries the store again *)
C31_SkipTick ==
    /\ [][(epc = "pop" /\ poisoned /\ epc' # epc) =>
             /\ heap' = heap
             /\ snap_chan' = snap_chan
             /\ ready_jobs' = <<>>
             /\ worker_chan' = worker_chan
             /\ epc' = "send"
             /\ loops' = loops]_vars
    /\ [][(epc # "exited" /\ epc' = "exited") =>
             (epc = "check" /\ ~is_running)]_vars
    /\ [][(epc = "check" /\ is_running /\ epc' # epc) => epc' = "pop"]_vars

(* an iteration has passed its lock() on a poisoned Mutex with nothing popped
   while the store held a job due at the time it read, and a due job is still
   in the store *)
C31_Witness ==
    /\ epc = "send" /\ is_running
    /\ ret.op = "engine_pop" /\ ret.arg.lock = "Err" /\ ret.arg.due > 0
    /\ ret.val = <<>> /\ ready_jobs = <<>>
    /\ \E i \in 1..Len(heap) : heap[i].execution_time <= ret.arg.now

(* the jobs the polling thread has popped: those waiting to be sent and those
   sent on the handoff channel *)
EnginePopped == ready_jobs \o Handoff

(* the jobs remove(id) has returned to its caller *)
Removed ==
    LET took == SelectSeq(seen, LAMBDA e : e.via = "remove")
    IN  [i \in 1..Len(took) |-> took[i].job]

(* C32: a job goes to one side only: a job remove(id) has returned is never
   among the jobs the polling thread has popped or sent, and is returned
   once; and for every job the polling thread has popped, remove(id) on the
   store as it is, with or without a persistence channel, returns None, sends
   no snapshot and leaves the store as it is *)
C32_OneSide ==
    /\ NoDup(Ids(Removed))
    /\ \A i \in 1..Len(Removed) : \A k \in 1..Len(EnginePopped) :
          Removed[i].id # EnginePopped[k].id
    /\ \A k \in 1..Len(EnginePopped) : \A tx \in BOOLEAN :
          remove(heap, tx, EnginePopped[k].id) =
             [heap |-> heap, sent |-> <<>>, ret |-> None]

(* with the engine running, a caller has removed a due job, and the polling
   thread has popped and sent another one *)
C32_Witness ==
    /\ is_running /\ epc = "send"
    /\ \E i \in 1..Len(Removed) : Removed[i].execution_time <= now
    /\ worker_chan # <<>>

(* the Vec a holds the jobs of the store h, each once *)
HoldsStore(a, h) == Len(a) = Len(h) /\ Range(a) = Range(h)

(* C33: the newest snapshot on its way to the file is the store as it is:
   the last one on the persistence channel, or with the channel empty the one
   in the writer's hands; the writer takes the snapshots in the order they
   were sent; so a snapshot written and renamed without an error while no
   other is waiting leaves in the file the jobs of the store as it is *)
C33_SnapshotOrder ==
    /\ [](snap_chan # <<>> => HoldsStore(snap_chan[Len(snap_chan)], heap))
    /\ []((snap_chan = <<>> /\ wpc \in Busy) => HoldsStore(wsnap, heap))
    /\ [][(wpc = "recv" /\ wpc' = "create") =>
             /\ wsnap' = snap_chan[1]
             /\ snap_chan' = Tail(snap_chan)]_vars
    /\ [][(WriterRename(TRUE) /\ snap_chan = <<>>) =>
             HoldsStore(load_jobs(files', storage_path), heap')]_vars

(* main started on an empty store, two jobs were pushed, and after the
   snapshot of one job the snapshot of both was written: the writer is idle,
   the channel empty, and the file holds the two jobs of the store *)
C33_Witness ==
    /\ main_pc = "run" /\ wpc = "recv" /\ snap_chan = <<>>
    /\ ~files[temp_path].exists
    /\ LET jobs == load_jobs(files, storage_path)
       IN  /\ Len(jobs) = 2
           /\ \A i \in 1..2 : jobs[i].status = "Pending"
           /\ HoldsStore(jobs, heap)

(* C34: every stop() returns: a stop() that has cleared the flag never comes
   to join a polling loop whose flag is set again (nothing but a stop()
   clears the flag, so such a loop does not exit and the join() does not
   return) *)
C34_StopReturns == ~(stop_pc = "join" /\ handle /\ is_running)

(* the ids of the jobs load_jobs returns from the backing file *)
OnDisk == Range(Ids(load_jobs(files, storage_path)))

(* the ids of the jobs a caller removed or the polling thread popped for
   dispatch, in this run of the program or an earlier one *)
Gone == {seen[i].job.id : i \in 1..Len(seen)}

(* C35: a job that is in the backing file stays in it, whenever the file
   changes and across crashes, unless it was removed by a caller or popped
   for dispatch;
   and a start of the program puts exactly the jobs of the file into the
   store. So a job written once is in the store after a restart unless it
   had been removed or popped before the crash *)
C35_Durable ==
    /\ [][files'[storage_path] # files[storage_path] =>
             \A id \in OnDisk : id \in OnDisk' \/ id \in Gone']_vars
    /\ [][(main_pc = "load" /\ main_pc' # "load") =>
             /\ Range(Ids(heap')) = OnDisk
             /\ Len(heap') = Len(load_jobs(files, storage_path))]_vars

(* the program was started again after a crash that left a partly written
   temporary file, and its store holds a job that an earlier run pushed and
   wrote, while another job was removed or popped before the crash *)
C35_Witness ==
    /\ main_pc = "spawn"
    /\ files[temp_path].exists /\ ~Complete(files[temp_path])
    /\ \E i \in 1..Len(heap) : heap[i].status = "Pending"
    /\ Gone # {}

====
